---- MODULE Spec2Model ----
(***************************************************************************)
(* Fluxo de Caixa: the ledger store (LancamentoManager), the analytics     *)
(* engine (AnalyticsEngine) and the pages that call them (dashboard,       *)
(* comparativo, previsoes), as a state machine.                            *)
(*                                                                         *)
(* Texts are modelled by what the string operations of the code see:       *)
(*   - a kind text (tipo) is a lower-case core word plus two flags, "has   *)
(*     upper-case letters" and "has surrounding whitespace"; str.strip()   *)
(*     clears the second flag, str.lower() the first;                      *)
(*   - a date text "YYYY-MM-DD" is the triple [y, m, d]; SQL compares it   *)
(*     as text (lexicographically), pd.to_datetime parses it and yields    *)
(*     NaT when the month or the day is out of range;                      *)
(*   - an amount is an integer; a float result is an exact rational or one *)
(*     of the IEEE-754 values inf, -inf, nan.                              *)
(***************************************************************************)
EXTENDS Integers, Sequences, FiniteSets, TLC

VARIABLES store, nextId, out

vars == <<store, nextId, out>>

-----------------------------------------------------------------------------
(* Bounds of the model *)

\* number of INSERTs the model performs over a run (rows of the table)
MaxRows == 2

-----------------------------------------------------------------------------
(* Floating-point values: exact rationals and the IEEE-754 specials *)

Abs(x) == IF x < 0 THEN -x ELSE x

RECURSIVE Gcd(_, _)
Gcd(a, b) == IF b = 0 THEN a ELSE Gcd(b, a % b)

Inf == [t |-> "inf", n |-> 1, d |-> 0]
NegInf == [t |-> "-inf", n |-> -1, d |-> 0]
NaN == [t |-> "nan", n |-> 0, d |-> 0]

\* the rational n/d (d # 0) in lowest terms with a positive denominator
Fin(n, d) ==
    LET g == Gcd(Abs(n), Abs(d))
        s == IF d < 0 THEN -1 ELSE 1
    IN [t |-> "fin", n |-> s * (n \div g), d |-> s * (d \div g)]

Num(i) == [t |-> "fin", n |-> i, d |-> 1]

IsFinite(a) == a.t = "fin"
IsNaN(a) == a.t = "nan"

\* numpy division of two integers: x/0 is inf, -inf or nan, never an error
NpDiv(a, b) ==
    IF b # 0 THEN Fin(a, b)
    ELSE IF a > 0 THEN Inf ELSE IF a < 0 THEN NegInf ELSE NaN

FAdd(a, b) ==
    IF IsNaN(a) \/ IsNaN(b) THEN NaN
    ELSE IF IsFinite(a) /\ IsFinite(b) THEN Fin(a.n * b.d + b.n * a.d, a.d * b.d)
    ELSE IF IsFinite(a) THEN b
    ELSE IF IsFinite(b) THEN a
    ELSE IF a = b THEN a ELSE NaN

FNeg(a) ==
    IF IsFinite(a) THEN Fin(-a.n, a.d)
    ELSE IF a = Inf THEN NegInf ELSE IF a = NegInf THEN Inf ELSE NaN

FSub(a, b) == FAdd(a, FNeg(b))

\* multiplication and division by a finite, non-zero rational k
FScale(a, kn, kd) ==
    IF IsFinite(a) THEN Fin(a.n * kn, a.d * kd)
    ELSE IF IsNaN(a) THEN NaN
    ELSE IF kn * kd > 0 THEN a ELSE FNeg(a)

FMul(a, b) ==
    IF IsFinite(a) /\ IsFinite(b) THEN Fin(a.n * b.n, a.d * b.d) ELSE NaN

\* a < b on finite values
FLess(a, b) == a.n * b.d < b.n * a.d

-----------------------------------------------------------------------------
(* Texts: kinds and dates *)

\* a kind text: core word, upper-case letters present, surrounding blanks
Txt(w, u, p) == [base |-> w, upper |-> u, pad |-> p]

\* str.strip() and str.lower()
strip(s) == [s EXCEPT !.pad = FALSE]
lower(s) == [s EXCEPT !.upper = FALSE]

\* the literals "entrada" and "saída" the engine compares against
entrada == Txt("entrada", FALSE, FALSE)
saida == Txt("saida", FALSE, FALSE)

\* TIPOS = ["Entrada", "Saída"], the kinds the forms offer
TIPOS == {Txt("entrada", TRUE, FALSE), Txt("saida", TRUE, FALSE)}

\* a date text "YYYY-MM-DD"
Dt(y, m, d) == [y |-> y, m |-> m, d |-> d]

\* text comparison of two date texts, as SQLite compares TEXT values
TextLeq(a, b) ==
    \/ a.y < b.y
    \/ a.y = b.y /\ a.m < b.m
    \/ a.y = b.y /\ a.m = b.m /\ a.d <= b.d

IsLeap(y) == (y % 4 = 0) /\ ((y % 100 # 0) \/ (y % 400 = 0))

DaysInMonth(y, m) ==
    IF m = 2 THEN (IF IsLeap(y) THEN 29 ELSE 28)
    ELSE IF m \in {4, 6, 9, 11} THEN 30 ELSE 31

RECURSIVE DaysBeforeMonth(_, _)
DaysBeforeMonth(y, m) ==
    IF m <= 1 THEN 0 ELSE DaysBeforeMonth(y, m - 1) + DaysInMonth(y, m - 1)

\* proleptic Gregorian ordinal of a valid date (date.toordinal)
Ordinal(t) ==
    LET y1 == t.y - 1
    IN 365 * y1 + (y1 \div 4) - (y1 \div 100) + (y1 \div 400)
       + DaysBeforeMonth(t.y, t.m) + t.d

IsDate(t) == t.m \in 1..12 /\ t.d >= 1 /\ t.d <= DaysInMonth(t.y, t.m)

\* to_datetime taking a day past the end of its month as a day of that month
to_datetime_lenient(t) ==
    [nat |-> FALSE, dia |-> Ordinal(t), mes |-> 12 * t.y + (t.m - 1)]

\* pd.to_datetime(text, errors="coerce"): a timestamp at midnight, or NaT
to_datetime(t) ==
    IF IsDate(t) THEN [nat |-> FALSE, dia |-> Ordinal(t), mes |-> 12 * t.y + (t.m - 1)]
    ELSE [nat |-> TRUE, dia |-> 0, mes |-> 0]

\* datetime.now(): the current instant, a date and the seconds since midnight
Now == [y |-> 2024, m |-> 3, d |-> 15, secs |-> 43200]

\* the calendar dates near Now, to turn an ordinal back into a date
Calendar ==
    {Dt(y, m, d) : y \in (Now.y - 2)..Now.y, m \in 1..12, d \in 1..31}

\* (datetime.now() - timedelta(days=n)).strftime("%Y-%m-%d")
DaysAgoText(n) ==
    CHOOSE t \in Calendar : IsDate(t) /\ Ordinal(t) = Ordinal(Now) - n

\* data_inicio of page_previsoes, for each choice of meses_historico
DataInicio == [h \in {6, 12, 24} |-> DaysAgoText(h * 30)]

-----------------------------------------------------------------------------
(* Inputs of the model *)

EMPRESAS_PADRAO == {"Gestao"}

\* the kind texts "Entrada", "ENTRADA ", "Saída" and "Outro"
Entrada == Txt("entrada", TRUE, FALSE)
EntradaPad == Txt("entrada", TRUE, TRUE)
Saida == Txt("saida", TRUE, FALSE)
Outro == Txt("outro", TRUE, FALSE)

\* date texts: two months of the current year, one of last year (more than
\* 180 and less than 360 days before Now), and the malformed "2024-02-30"
Jan == Dt(2024, 1, 5)
Mar == Dt(2024, 3, 10)
LastYear == Dt(2023, 6, 10)
Malformed == Dt(2024, 2, 30)

\* amount values handed to float(): numbers, and a text that is no number
Numero(v) == [num |-> TRUE, v |-> v]
NaoNumero == [num |-> FALSE, v |-> 0]

\* kind and amount of an entry
KindsAndAmounts ==
    ({Entrada} \X {Numero(0), Numero(1000), Numero(1500)})
    \cup ({EntradaPad, Saida, Outro} \X {Numero(1000)})

Entry(d, ka) == [data |-> d, empresa |-> "Gestao", tipo |-> ka[1], valor |-> ka[2]]

\* the dados handed to insert_lancamento and update_lancamento: every kind
\* and amount in the two months of the current year, the two kinds of the
\* forms last year, one entry of a malformed date, one whose amount is no
\* number, and an inflow of 1200 in the later month
Dados ==
    {Entry(d, ka) : d \in {Jan, Mar}, ka \in KindsAndAmounts}
    \cup {Entry(LastYear, ka) : ka \in {<<Entrada, Numero(1000)>>, <<Saida, Numero(1000)>>}}
    \cup {Entry(Malformed, <<Entrada, Numero(1000)>>), Entry(Jan, <<Entrada, NaoNumero>>)}
    \cup {Entry(Mar, <<Entrada, Numero(1200)>>)}

-----------------------------------------------------------------------------
(* LancamentoManager *)

\* a row of table lancamentos (the columns the engine reads)
Row(id, dados) ==
    [id |-> id, data |-> dados.data, empresa |-> dados.empresa,
     tipo |-> dados.tipo, valor |-> dados.valor]

\* float(dados.get("valor", 0)) raises on a text that is no number
\* float() taken to accept every value
FloatOk_any(v) == TRUE

FloatOk(v) == v.num

Range(s) == {s[i] : i \in 1..Len(s)}

\* filters: each field is <<>> (absent or empty) or <<value>>
Filtros(emp, ini, fim, tipo) ==
    [empresa |-> emp, data_inicio |-> ini, data_fim |-> fim, tipo |-> tipo]
SemFiltros == Filtros(<<>>, <<>>, <<>>, <<>>)

\* the WHERE clause with "data < ?" for data_fim
Where_before_fim(r, f) ==
    /\ (f.empresa # <<>> => r.empresa = f.empresa[1])
    /\ (f.data_inicio # <<>> => TextLeq(f.data_inicio[1], r.data))
    /\ (f.data_fim # <<>> => TextLeq(r.data, f.data_fim[1]) /\ r.data # f.data_fim[1])
    /\ (f.tipo # <<>> => r.tipo = f.tipo[1])

\* the WHERE clause: the conjunction of the conditions of the given filters
Where(r, f) ==
    /\ (f.empresa # <<>> => r.empresa = f.empresa[1])
    /\ (f.data_inicio # <<>> => TextLeq(f.data_inicio[1], r.data))
    /\ (f.data_fim # <<>> => TextLeq(r.data, f.data_fim[1]))
    /\ (f.tipo # <<>> => r.tipo = f.tipo[1])

\* ORDER BY data DESC, id DESC
OrderBefore(a, b) ==
    \/ ~TextLeq(a.data, b.data)
    \/ a.data = b.data /\ a.id > b.id

RECURSIVE OrderBy(_)
OrderBy(S) ==
    IF S = {} THEN <<>>
    ELSE LET first == CHOOSE a \in S : \A b \in S \ {a} : OrderBefore(a, b)
         IN <<first>> \o OrderBy(S \ {first})

\* pd.to_numeric(valor, errors="coerce").fillna(0.0)
to_numeric(v) == IF v.num THEN v.v ELSE 0

\* read_lancamentos answering from what the table held after its first
\* INSERT, as a cache filled at the first read would
read_lancamentos_stale(rows, f) ==
    LET sel == OrderBy({r \in Range(rows) : Where(r, f) /\ r.id = 1})
    IN [i \in 1..Len(sel) |-> [sel[i] EXCEPT !.valor = to_numeric(sel[i].valor)]]

\* read_lancamentos dropping the rows whose amount is no number
read_lancamentos_dropna(rows, f) ==
    LET sel == OrderBy({r \in Range(rows) : Where(r, f) /\ r.valor.num})
    IN [i \in 1..Len(sel) |-> [sel[i] EXCEPT !.valor = to_numeric(sel[i].valor)]]

read_lancamentos(rows, f) ==
    LET sel == OrderBy({r \in Range(rows) : Where(r, f)})
    IN [i \in 1..Len(sel) |-> [sel[i] EXCEPT !.valor = to_numeric(sel[i].valor)]]

-----------------------------------------------------------------------------
(* pandas helpers *)

RECURSIVE SumSeq(_)
SumSeq(s) == IF s = <<>> THEN 0 ELSE s[1] + SumSeq(Tail(s))

Col(df) == [i \in 1..Len(df) |-> df[i].valor]

RECURSIVE SortAsc(_)
SortAsc(S) ==
    IF S = {} THEN <<>>
    ELSE LET lo == CHOOSE a \in S : \A b \in S : a <= b
         IN <<lo>> \o SortAsc(S \ {lo})

\* groupby_unstack with a line for every month from the first to the last
groupby_unstack_filled(df) ==
    LET cell(m, c) ==
            LET hit(r) == r.mes = m /\ r.tipo_norm = c
            IN SumSeq(Col(SelectSeq(df, hit)))
        cols == {df[i].tipo_norm : i \in 1..Len(df)}
        present == SortAsc({df[i].mes : i \in 1..Len(df)})
        idx == IF present = <<>> THEN <<>>
               ELSE [k \in 1..(present[Len(present)] - present[1] + 1) |->
                        present[1] + k - 1]
    IN [index |-> idx, columns |-> cols,
        at |-> [m \in Range(idx) |-> [c \in cols |-> cell(m, c)]]]

\* groupby_unstack summing the rows of a kind whatever their month
groupby_unstack_nomonth(df) ==
    LET cell(m, c) ==
            LET hit(r) == r.tipo_norm = c
            IN SumSeq(Col(SelectSeq(df, hit)))
        cols == {df[i].tipo_norm : i \in 1..Len(df)}
        idx == SortAsc({df[i].mes : i \in 1..Len(df)})
    IN [index |-> idx, columns |-> cols,
        at |-> [m \in Range(idx) |-> [c \in cols |-> cell(m, c)]]]

\* df.groupby(["mes", "tipo_norm"])["valor"].sum().unstack(fill_value=0):
\* one line per month present (ascending), one column per kind present,
\* 0 where a month has no row of the kind
groupby_unstack(df) ==
    LET cell(m, c) ==
            LET hit(r) == r.mes = m /\ r.tipo_norm = c
            IN SumSeq(Col(SelectSeq(df, hit)))
        cols == {df[i].tipo_norm : i \in 1..Len(df)}
        idx == SortAsc({df[i].mes : i \in 1..Len(df)})
    IN [index |-> idx, columns |-> cols,
        at |-> [m \in Range(idx) |-> [c \in cols |-> cell(m, c)]]]

\* monthly[c], the column of kind c in month order
Column(monthly, c) ==
    [i \in 1..Len(monthly.index) |-> monthly.at[monthly.index[i]][c]]

\* Series.pct_change(): nan first, then v[i] / v[i-1] - 1
pct_change(v) ==
    [i \in 1..Len(v) |->
        IF i = 1 THEN NaN ELSE FSub(NpDiv(v[i], v[i - 1]), Num(1))]

RECURSIVE FSum(_)
FSum(s) == IF s = <<>> THEN Num(0) ELSE FAdd(s[1], FSum(Tail(s)))

NotNaN(a) == ~IsNaN(a)

\* Series.mean(): the mean of the values that are not nan; nan when none is
mean(s) ==
    LET kept == SelectSeq(s, NotNaN)
    IN IF kept = <<>> THEN NaN ELSE FScale(FSum(kept), 1, Len(kept))

-----------------------------------------------------------------------------
(* AnalyticsEngine *)

tipo_norm(r) == lower(strip(r.tipo))

IsEntrada(r) == tipo_norm(r) = entrada
IsSaida(r) == tipo_norm(r) = saida

\* calcular_kpis with the operands of saldo swapped
calcular_kpis_swapped(df) ==
    LET entradas_ == SumSeq(Col(SelectSeq(df, IsEntrada)))
        saidas_ == SumSeq(Col(SelectSeq(df, IsSaida)))
    IN [entradas |-> entradas_, saidas |-> saidas_,
        saldo |-> saidas_ - entradas_, total_lancamentos |-> Len(df)]

\* calcular_kpis counting only the entries whose date can be parsed
calcular_kpis_count_dated(df) ==
    IF df = <<>>
    THEN [entradas |-> 0, saidas |-> 0, saldo |-> 0, total_lancamentos |-> 0]
    ELSE LET entradas_ == SumSeq(Col(SelectSeq(df, IsEntrada)))
             saidas_ == SumSeq(Col(SelectSeq(df, IsSaida)))
             dated(r) == ~to_datetime(r.data).nat
         IN [entradas |-> entradas_, saidas |-> saidas_,
             saldo |-> entradas_ - saidas_,
             total_lancamentos |-> Len(SelectSeq(df, dated))]

\* calcular_kpis answering -1 in every field for an empty collection
calcular_kpis_empty_none(df) ==
    IF df = <<>>
    THEN [entradas |-> -1, saidas |-> -1, saldo |-> -1, total_lancamentos |-> -1]
    ELSE LET entradas_ == SumSeq(Col(SelectSeq(df, IsEntrada)))
             saidas_ == SumSeq(Col(SelectSeq(df, IsSaida)))
         IN [entradas |-> entradas_, saidas |-> saidas_,
             saldo |-> entradas_ - saidas_, total_lancamentos |-> Len(df)]

calcular_kpis(df) ==
    IF df = <<>>
    THEN [entradas |-> 0, saidas |-> 0, saldo |-> 0, total_lancamentos |-> 0]
    ELSE LET entradas_ == SumSeq(Col(SelectSeq(df, IsEntrada)))
             saidas_ == SumSeq(Col(SelectSeq(df, IsSaida)))
         IN [entradas |-> entradas_, saidas |-> saidas_,
             saldo |-> entradas_ - saidas_, total_lancamentos |-> Len(df)]

HasDate(r) == ~to_datetime(r.data).nat

\* InWindow comparing calendar dates, the time of day of data_corte dropped
InWindow_dateonly(r, periodo) ==
    to_datetime(r.data).dia >= Ordinal(Now) - periodo * 30

\* data_dt >= datetime.now() - timedelta(days=periodo * 30): both sides in
\* seconds counted from the midnight of the day of data_corte
InWindow(r, periodo) ==
    (to_datetime(r.data).dia - (Ordinal(Now) - periodo * 30)) * 86400 >= Now.secs

\* df_trend after dropna and the cut at data_corte
TrendWindow(df, periodo) ==
    LET recent(r) == InWindow(r, periodo)
    IN SelectSeq(SelectSeq(df, HasDate), recent)

\* TrendRows with str.lower() alone, as if str.strip() were forgotten
TrendRows_nostrip(df) ==
    [i \in 1..Len(df) |->
        [mes |-> to_datetime(df[i].data).mes, tipo_norm |-> lower(df[i].tipo),
         valor |-> df[i].valor]]

\* df_trend with its columns "mes" and "tipo_norm"
TrendRows(df) ==
    [i \in 1..Len(df) |->
        [mes |-> to_datetime(df[i].data).mes, tipo_norm |-> tipo_norm(df[i]),
         valor |-> df[i].valor]]

TrendMonthly(df, periodo) == groupby_unstack(TrendRows(TrendWindow(df, periodo)))

ZeroTrends ==
    [ret |-> "ok", trend_entradas |-> Num(0), trend_saidas |-> Num(0),
     trend_saldo |-> Num(0)]

Raise(e) ==
    [ret |-> e, trend_entradas |-> NaN, trend_saidas |-> NaN, trend_saldo |-> NaN]

\* mean of the month-over-month changes of a series, as a percentage
Trend(v) == FScale(mean(pct_change(v)), 100, 1)

\* calcular_trends with trend_saldo taken as trend_entradas - trend_saidas
calcular_trends_diff(df, periodo) ==
    IF df = <<>> THEN ZeroTrends
    ELSE IF TrendWindow(df, periodo) = <<>> THEN ZeroTrends
    ELSE LET monthly == TrendMonthly(df, periodo)
             n == Len(monthly.index)
             has_e == entrada \in monthly.columns
             has_s == saida \in monthly.columns
             t_e == IF has_e /\ n >= 2 THEN Trend(Column(monthly, entrada)) ELSE Num(0)
             t_s == IF has_s /\ n >= 2 THEN Trend(Column(monthly, saida)) ELSE Num(0)
         IN IF ~has_e /\ ~has_s THEN Raise("TypeError")
            ELSE [ret |-> "ok", trend_entradas |-> t_e, trend_saidas |-> t_s,
                  trend_saldo |-> FSub(t_e, t_s)]

calcular_trends(df, periodo) ==
    IF df = <<>> THEN ZeroTrends
    ELSE IF TrendWindow(df, periodo) = <<>> THEN ZeroTrends
    ELSE LET monthly == TrendMonthly(df, periodo)
             n == Len(monthly.index)
             has_e == entrada \in monthly.columns
             has_s == saida \in monthly.columns
             col_e == IF has_e THEN Column(monthly, entrada) ELSE [i \in 1..n |-> 0]
             col_s == IF has_s THEN Column(monthly, saida) ELSE [i \in 1..n |-> 0]
             saldo_mensal == [i \in 1..n |-> col_e[i] - col_s[i]]
         IN \* monthly.get("entrada", 0) - monthly.get("saída", 0) is the
            \* int 0 when neither column exists, and len(0) raises
            IF ~has_e /\ ~has_s THEN Raise("TypeError")
            ELSE [ret |-> "ok",
                  trend_entradas |-> IF has_e /\ n >= 2 THEN Trend(col_e) ELSE Num(0),
                  trend_saidas |-> IF has_s /\ n >= 2 THEN Trend(col_s) ELSE Num(0),
                  trend_saldo |-> IF n >= 2 THEN Trend(saldo_mensal) ELSE Num(0)]

-----------------------------------------------------------------------------
(* Pages *)

\* get_empresas_list(df), as the options after "Todas"
get_empresas_list(df) ==
    IF df = <<>> THEN EMPRESAS_PADRAO ELSE {df[i].empresa : i \in 1..Len(df)}

\* the choice "Todas" of an "Empresa" select box: no filter on the company
Todas == <<>>

\* the choices of an "Empresa" select box: "Todas" or one company
EmpresaOptions(rows) ==
    {Todas} \cup {<<e>> : e \in get_empresas_list(read_lancamentos(rows, SemFiltros))}

\* the years offered: range(2020, datetime.now().year + 2), cut to two
Anos == {Now.y - 1, Now.y}

\* st.selectbox("Período Tendência", [3, 6, 12])
PeriodosTrend == {3, 6, 12}
\* st.selectbox("Meses de Histórico", [6, 12, 24])
MesesHistorico == {6, 12, 24}
\* st.selectbox("Meses de Projeção", [3, 6, 12])
MesesProjecao == {3, 6, 12}

FiltrosAno(ano, emp) == Filtros(emp, <<Dt(ano, 1, 1)>>, <<Dt(ano, 12, 31)>>, <<>>)

page_dashboard(rows, emp, ano, periodo) ==
    LET df_filtered == read_lancamentos(rows, FiltrosAno(ano, emp))
    IN [op |-> "dashboard", empresa |-> emp, ano |-> ano, periodo |-> periodo,
        kpis |-> calcular_kpis(df_filtered),
        trends |-> calcular_trends(df_filtered, periodo)]

\* calc_variation answering 0 for every zero base
calc_variation_zero(val1, val2) ==
    IF val1 = 0 THEN Num(0) ELSE FScale(Fin(val2 - val1, val1), 100, 1)

\* calc_variation without the factor 100
calc_variation_ratio(val1, val2) ==
    IF val1 = 0 THEN (IF val2 = 0 THEN Num(0) ELSE Num(100))
    ELSE Fin(val2 - val1, val1)

calc_variation(val1, val2) ==
    IF val1 = 0 THEN (IF val2 = 0 THEN Num(0) ELSE Num(100))
    ELSE FScale(Fin(val2 - val1, val1), 100, 1)

page_comparativo(rows, ano1, emp1, ano2, emp2) ==
    LET kpis1 == calcular_kpis(read_lancamentos(rows, FiltrosAno(ano1, emp1)))
        kpis2 == calcular_kpis(read_lancamentos(rows, FiltrosAno(ano2, emp2)))
    IN [op |-> "comparativo", ano1 |-> ano1, empresa1 |-> emp1,
        ano2 |-> ano2, empresa2 |-> emp2, kpis1 |-> kpis1, kpis2 |-> kpis2,
        var_entradas |-> calc_variation(kpis1.entradas, kpis2.entradas),
        var_saidas |-> calc_variation(kpis1.saidas, kpis2.saidas),
        var_saldo |-> calc_variation(kpis1.saldo, kpis2.saldo),
        var_lanc |-> calc_variation(kpis1.total_lancamentos, kpis2.total_lancamentos)]

\* df_hist with its columns "mes" and "tipo_norm" (str.lower() alone here)
HistRows(df) ==
    [i \in 1..Len(df) |->
        [mes |-> to_datetime(df[i].data).mes, tipo_norm |-> lower(df[i].tipo),
         valor |-> df[i].valor]]

FiltrosHistorico(emp, meses_historico) ==
    Filtros(emp, <<DataInicio[meses_historico]>>, <<>>, <<>>)

df_historico(rows, emp, meses_historico) ==
    read_lancamentos(rows, FiltrosHistorico(emp, meses_historico))

monthly_hist(rows, emp, meses_historico) ==
    groupby_unstack(HistRows(SelectSeq(df_historico(rows, emp, meses_historico), HasDate)))

\* np.polyfit(x, y, 1) over x = 0 .. len(y) - 1: the least-squares line
polyfit(y) ==
    LET n == Len(y)
        x == [i \in 1..n |-> i - 1]
        Sx == SumSeq(x)
        Sxx == SumSeq([i \in 1..n |-> x[i] * x[i]])
        Sy == SumSeq(y)
        Sxy == SumSeq([i \in 1..n |-> x[i] * y[i]])
        N == n * Sxy - Sx * Sy
        D == n * Sxx - Sx * Sx
    IN [slope |-> Fin(N, D), intercept |-> Fin(Sy * D - N * Sx, n * D)]

\* _fit answering the flat line at the mean for every series
_fit_mean(y) ==
    [slope |-> Num(0),
     intercept |-> IF Len(y) > 0 THEN Fin(SumSeq(y), Len(y)) ELSE Num(0)]

\* _fit answering a flat line at 0 for a series of fewer than two points
_fit_flat0(y) ==
    IF Len(y) >= 2 THEN polyfit(y) ELSE [slope |-> Num(0), intercept |-> Num(0)]

_fit(y) ==
    IF Len(y) >= 2 THEN polyfit(y)
    ELSE [slope |-> Num(0),
          intercept |-> IF Len(y) > 0 THEN Fin(SumSeq(y), Len(y)) ELSE Num(0)]

FitOf(monthly, c) ==
    IF c \in monthly.columns THEN _fit(Column(monthly, c))
    ELSE [slope |-> Num(0), intercept |-> Num(0)]

\* max(0, v) left out
max0_none(v) == v

\* max(0, v)
max0(v) == IF FLess(v, Num(0)) THEN Num(0) ELSE v

\* intercept + slope * k
LineAt(fit, k) == FAdd(fit.intercept, FMul(fit.slope, Num(k)))

\* the index of horizon step i taken one too far
ProjIndex_plus1(monthly, i) == Len(monthly.index) + i

\* the bucket index of horizon step i: len(monthly_hist) + i - 1
ProjIndex(monthly, i) == Len(monthly.index) + i - 1

\* the column of kind c, or zeros when the table has no such column
ColumnOrZero(monthly, c) ==
    IF c \in monthly.columns THEN Column(monthly, c)
    ELSE [k \in 1..Len(monthly.index) |-> 0]

\* the series entrada[k] - saida[k] of a bucket table
SaldoSeries(monthly) ==
    [k \in 1..Len(monthly.index) |->
        ColumnOrZero(monthly, entrada)[k] - ColumnOrZero(monthly, saida)[k]]

\* Projecao with the balance fitted on its own series
Projecao_saldo_fit(monthly, i) ==
    LET ent_proj == max0(LineAt(FitOf(monthly, entrada), ProjIndex(monthly, i)))
        sai_proj == max0(LineAt(FitOf(monthly, saida), ProjIndex(monthly, i)))
    IN [mes |-> monthly.index[Len(monthly.index)] + i,
        entradas_proj |-> ent_proj, saidas_proj |-> sai_proj,
        saldo_proj |-> LineAt(_fit(SaldoSeries(monthly)), ProjIndex(monthly, i))]

Projecao(monthly, i) ==
    LET ent_proj == max0(LineAt(FitOf(monthly, entrada), ProjIndex(monthly, i)))
        sai_proj == max0(LineAt(FitOf(monthly, saida), ProjIndex(monthly, i)))
    IN [mes |-> monthly.index[Len(monthly.index)] + i,
        entradas_proj |-> ent_proj, saidas_proj |-> sai_proj,
        saldo_proj |-> FSub(ent_proj, sai_proj)]

\* page_previsoes without the guard on monthly_hist.empty
page_previsoes_noguard(rows, emp, meses_historico, meses_projecao) ==
    LET par == [op |-> "previsoes", empresa |-> emp,
                meses_historico |-> meses_historico,
                meses_projecao |-> meses_projecao]
        monthly == monthly_hist(rows, emp, meses_historico)
    IN IF df_historico(rows, emp, meses_historico) = <<>>
       THEN par @@ [ret |-> "warning"]
       ELSE par @@ [ret |-> "ok",
                    projecoes |-> IF monthly.index = <<>> THEN <<>>
                                  ELSE [i \in 1..meses_projecao |->
                                           Projecao(monthly, i)]]

page_previsoes(rows, emp, meses_historico, meses_projecao) ==
    LET par == [op |-> "previsoes", empresa |-> emp,
                meses_historico |-> meses_historico,
                meses_projecao |-> meses_projecao]
        monthly == monthly_hist(rows, emp, meses_historico)
        warning == par @@ [ret |-> "warning"]
    IN IF df_historico(rows, emp, meses_historico) = <<>> THEN warning
       ELSE IF monthly.index = <<>> THEN warning
       ELSE par @@ [ret |-> "ok",
                    projecoes |-> [i \in 1..meses_projecao |-> Projecao(monthly, i)]]

-----------------------------------------------------------------------------
(* The state machine *)

\* main() shows the page "Lançamentos" first (index=0 of the navigation)
Init ==
    /\ store = <<>>
    /\ nextId = 1
    /\ out = [op |-> "lancamentos"]

\* The forms that change the store are on the page "Lançamentos". The model
\* goes from that page to one of the other pages and back, so each page is
\* computed once for each state of the store.
NaPaginaLancamentos == out.op = "lancamentos"

\* page_lancamentos(): the navigation back to the forms, or st.rerun()
PageLancamentos ==
    /\ ~NaPaginaLancamentos
    /\ out' = [op |-> "lancamentos"]
    /\ UNCHANGED <<store, nextId>>

\* insert_lancamento(dados): one more row, or False when float() raises
InsertLancamento ==
    /\ NaPaginaLancamentos
    /\ nextId <= MaxRows
    /\ \E dados \in Dados :
           IF FloatOk(dados.valor)
           THEN /\ store' = Append(store, Row(nextId, dados))
                /\ nextId' = nextId + 1
                /\ out' = [op |-> "insert", ret |-> TRUE]
           ELSE /\ UNCHANGED <<store, nextId>>
                /\ out' = [op |-> "insert", ret |-> FALSE]

\* update_lancamento(id_, dados): the row of that id gets the new values;
\* True also when no row has the id, False when float() raises
UpdateLancamento ==
    /\ NaPaginaLancamentos
    /\ \E id_ \in 1..MaxRows, dados \in Dados :
           IF FloatOk(dados.valor)
           THEN /\ store' = [i \in 1..Len(store) |->
                                IF store[i].id = id_ THEN Row(id_, dados) ELSE store[i]]
                /\ out' = [op |-> "update", ret |-> TRUE]
           ELSE /\ UNCHANGED store
                /\ out' = [op |-> "update", ret |-> FALSE]
    /\ UNCHANGED nextId

HasOtherId(r, id_) == r.id # id_

\* delete_lancamento(id_): DELETE ... WHERE id = ?
DeleteLancamento ==
    /\ NaPaginaLancamentos
    /\ \E id_ \in 1..MaxRows :
           store' = SelectSeq(store, LAMBDA r : HasOtherId(r, id_))
    /\ out' = [op |-> "delete", ret |-> TRUE]
    /\ UNCHANGED nextId

PageDashboard ==
    /\ NaPaginaLancamentos
    /\ \E emp \in EmpresaOptions(store), ano \in Anos, periodo \in PeriodosTrend :
           out' = page_dashboard(store, emp, ano, periodo)
    /\ UNCHANGED <<store, nextId>>

\* (both "Empresa" boxes are left at "Todas")
PageComparativo ==
    /\ NaPaginaLancamentos
    /\ \E ano1 \in Anos, ano2 \in Anos :
           out' = page_comparativo(store, ano1, Todas, ano2, Todas)
    /\ UNCHANGED <<store, nextId>>

\* (the "Empresa" box is left at "Todas")
PagePrevisoes ==
    /\ NaPaginaLancamentos
    /\ \E meses_historico \in MesesHistorico, meses_projecao \in MesesProjecao :
           out' = page_previsoes(store, Todas, meses_historico, meses_projecao)
    /\ UNCHANGED <<store, nextId>>

Next ==
    \/ PageLancamentos
    \/ InsertLancamento
    \/ UpdateLancamento
    \/ DeleteLancamento
    \/ PageDashboard
    \/ PageComparativo
    \/ PagePrevisoes

Spec == Init /\ [][Next]_vars

-----------------------------------------------------------------------------
(* The forms of the page "Lançamentos" *)

\* st.date_input: a calendar date
DatasForm == {Jan, Mar}

\* the amounts of the form "novo_lancamento":
\* st.number_input("Valor (R$)", min_value=0.0, ...)
ValoresNovo == {Numero(0), Numero(1000)}

\* the amounts of the form "edit_<id>": st.number_input("Valor (R$)",
\* value=float(lancamento["valor"]), ...), which sets no min_value
ValoresEdicao == {Numero(-1000), Numero(0), Numero(1000)}

\* the dados a form builds from its widgets
DadosForm(d, t, v) == [data |-> d, empresa |-> "Gestao", tipo |-> t, valor |-> v]

\* the ids the select box "Selecionar Lançamento" offers
IdsForm == {store[i].id : i \in 1..Len(store)}

\* "Adicionar Lançamento"
FormNovoLancamento ==
    /\ nextId <= MaxRows
    /\ \E d \in DatasForm, t \in TIPOS, v \in ValoresNovo :
           store' = Append(store, Row(nextId, DadosForm(d, t, v)))
    /\ nextId' = nextId + 1
    /\ out' = [op |-> "insert", ret |-> TRUE]

\* "Salvar Alterações"
FormEditarLancamento ==
    /\ \E id_ \in IdsForm, d \in DatasForm, t \in TIPOS, v \in ValoresEdicao :
           store' = [i \in 1..Len(store) |->
                        IF store[i].id = id_ THEN Row(id_, DadosForm(d, t, v))
                        ELSE store[i]]
    /\ out' = [op |-> "update", ret |-> TRUE]
    /\ UNCHANGED nextId

\* "Confirmar Exclusão"
FormExcluirLancamento ==
    /\ \E id_ \in IdsForm :
           store' = SelectSeq(store, LAMBDA r : HasOtherId(r, id_))
    /\ out' = [op |-> "delete", ret |-> TRUE]
    /\ UNCHANGED nextId

NextFormularios ==
    \/ FormNovoLancamento
    \/ FormEditarLancamento
    \/ FormExcluirLancamento

SpecFormularios == Init /\ [][NextFormularios]_vars

-----------------------------------------------------------------------------
(* calcular_trends over tables dated around data_corte *)

\* for each period, a date on the day of data_corte and the day after it
\* (2023-12-16, 2023-09-17 and 2023-03-21 are 90, 180 and 360 days before
\* Now), a later month with an inflow and an outflow, and a malformed date
Janela ==
    {Entry(Dt(2023, 12, 16), <<Entrada, Numero(1000)>>),
     Entry(Dt(2023, 12, 17), <<Entrada, Numero(1000)>>),
     Entry(Dt(2023, 9, 17), <<Entrada, Numero(1000)>>),
     Entry(Dt(2023, 9, 18), <<Saida, Numero(1000)>>),
     Entry(Dt(2023, 3, 21), <<Entrada, Numero(1000)>>),
     Entry(Dt(2023, 3, 22), <<Entrada, Numero(1000)>>),
     Entry(Mar, <<Entrada, Numero(1500)>>), Entry(Mar, <<Saida, Numero(1000)>>),
     Entry(Malformed, <<Entrada, Numero(1000)>>)}

TabelasJanela ==
    {[i \in DOMAIN e |-> Row(i, e[i])] :
        e \in UNION {[1..n -> Janela] : n \in 0..MaxRows}}

InitJanela ==
    /\ store \in TabelasJanela
    /\ nextId = Len(store) + 1
    /\ out = [op |-> "lancamentos"]

\* analytics.calcular_trends(df, periodo) on the table as read
CalcularTrends ==
    /\ NaPaginaLancamentos
    /\ \E periodo \in PeriodosTrend :
           out' = [op |-> "trends", periodo |-> periodo,
                   trends |-> calcular_trends(read_lancamentos(store, SemFiltros),
                                              periodo)]
    /\ UNCHANGED <<store, nextId>>

NextJanela ==
    \/ PageLancamentos
    \/ CalcularTrends

SpecJanela == InitJanela /\ [][NextJanela]_vars

-----------------------------------------------------------------------------
(* The frames of a computation *)

\* A DataFrame is an object: a name refers to it, and an assignment to a
\* column changes the object for every name that refers to it. The frames of
\* a call are a sequence of objects; object 1 is the frame the caller gave.
LANC_COLUMNS ==
    {"id", "data", "empresa", "descricao", "categoria", "tipo", "valor",
     "observacoes", "created_at", "updated_at"}

\* the frame read_lancamentos returns for the rows df
Frame(df) == [columns |-> LANC_COLUMNS, rows |-> df]

\* name = frame (no copy): the same object under one more name
df_alias(heap, ref) == [heap |-> heap, ref |-> ref]

\* frame.copy(): a new object equal to the one referred to
df_copy(heap, ref) == [heap |-> Append(heap, heap[ref]), ref |-> Len(heap) + 1]

\* frame[name] = ...: the column is set in the object referred to
set_column(heap, ref, name) ==
    [heap EXCEPT ![ref] = [@ EXCEPT !.columns = @ \cup {name}]]

\* frame.dropna(...) and frame[mask]: a new object with the rows kept
select_rows(heap, ref, rows) ==
    [heap |-> Append(heap, [heap[ref] EXCEPT !.rows = rows]), ref |-> Len(heap) + 1]

\* the frames at the end of calcular_kpis(df)
calcular_kpis_frames(df) ==
    IF df = <<>> THEN <<Frame(df)>>
    ELSE LET df_clean == df_copy(<<Frame(df)>>, 1)
         IN set_column(df_clean.heap, df_clean.ref, "tipo_norm")

\* the frames at the end of calcular_trends(df, periodo)
calcular_trends_frames(df, periodo) ==
    IF df = <<>> THEN <<Frame(df)>>
    ELSE LET df_trend == df_copy(<<Frame(df)>>, 1)
             parsed == set_column(df_trend.heap, df_trend.ref, "data_dt")
             dated == select_rows(parsed, df_trend.ref, SelectSeq(df, HasDate))
             recent == select_rows(dated.heap, dated.ref, TrendWindow(df, periodo))
         IN IF recent.heap[recent.ref].rows = <<>> THEN recent.heap
            ELSE set_column(set_column(recent.heap, recent.ref, "mes"),
                            recent.ref, "tipo_norm")

\* the frames of page_previsoes once monthly_hist is built from df_historico
page_previsoes_frames(df) ==
    IF df = <<>> THEN <<Frame(df)>>
    ELSE LET df_hist == df_copy(<<Frame(df)>>, 1)
             parsed == set_column(df_hist.heap, df_hist.ref, "data_dt")
             dated == select_rows(parsed, df_hist.ref, SelectSeq(df, HasDate))
         IN set_column(set_column(dated.heap, dated.ref, "mes"),
                       dated.ref, "tipo_norm")

-----------------------------------------------------------------------------
(* The pages over a database file that exists already *)

\* Rows of a lancamentos.db found at start: _init_db creates the table only
\* IF NOT EXISTS and keeps what the file holds. SQLite stores any text in
\* the columns data, tipo and valor, whoever wrote the file, so a row may
\* hold an amount that is no number, which insert_lancamento never writes.
Arquivo ==
    {Entry(Jan, <<Entrada, NaoNumero>>), Entry(Jan, <<Entrada, Numero(1000)>>),
     Entry(Mar, <<Entrada, Numero(1500)>>), Entry(Mar, <<Saida, Numero(1000)>>),
     Entry(Mar, <<Saida, NaoNumero>>), Entry(Malformed, <<Entrada, Numero(1000)>>),
     Entry(Jan, <<Outro, NaoNumero>>), Entry(LastYear, <<Saida, Numero(1000)>>)}

\* the tables of up to MaxRows rows, with the ids AUTOINCREMENT gave them
Tabelas ==
    {[i \in DOMAIN e |-> Row(i, e[i])] :
        e \in UNION {[1..n -> Arquivo] : n \in 0..MaxRows}}

InitArquivo ==
    /\ store \in Tabelas
    /\ nextId = Len(store) + 1
    /\ out = [op |-> "lancamentos"]

\* the pages that read the table and compute from it
NextArquivo ==
    \/ PageLancamentos
    \/ PageDashboard
    \/ PageComparativo
    \/ PagePrevisoes

SpecArquivo == InitArquivo /\ [][NextArquivo]_vars

-----------------------------------------------------------------------------
(* The pages over a table of four entries of two months *)

\* two inflows and two outflows of company "Acme", in January and February
Cenario ==
    {[data |-> Dt(2024, 1, 5), empresa |-> "Acme", tipo |-> Entrada, valor |-> Numero(1000)],
     [data |-> Dt(2024, 1, 20), empresa |-> "Acme", tipo |-> Saida, valor |-> Numero(400)],
     [data |-> Dt(2024, 2, 10), empresa |-> "Acme", tipo |-> Entrada, valor |-> Numero(1100)],
     [data |-> Dt(2024, 2, 15), empresa |-> "Acme", tipo |-> Saida, valor |-> Numero(500)]}

\* the tables that hold the four entries, inserted in any order
TabelasCenario ==
    {[i \in DOMAIN e |-> Row(i, e[i])] :
        e \in {f \in [1..Cardinality(Cenario) -> Cenario] :
                  \A i, j \in DOMAIN f : f[i] = f[j] => i = j}}

InitCenario ==
    /\ store \in TabelasCenario
    /\ nextId = Len(store) + 1
    /\ out = [op |-> "lancamentos"]

SpecCenario == InitCenario /\ [][NextArquivo]_vars

-----------------------------------------------------------------------------
(* read_lancamentos under its filters *)

\* entries of two companies, three dates and the two kinds of the forms
Leitura ==
    {[Entry(d, <<t, Numero(1000)>>) EXCEPT !.empresa = e] :
        d \in {LastYear, Jan, Mar}, t \in {Entrada, Saida}, e \in {"Gestao", "Effexus"}}

TabelasLeitura ==
    {[i \in DOMAIN e |-> Row(i, e[i])] :
        e \in UNION {[1..n -> Leitura] : n \in 0..MaxRows}}

InitLeitura ==
    /\ store \in TabelasLeitura
    /\ nextId = Len(store) + 1
    /\ out = [op |-> "lancamentos"]

\* the filtros handed to read_lancamentos; <<>> is a filter that is not
\* given, or is given as None or "", which filtros.get(...) takes as false
FiltrosLeitura ==
    {Filtros(emp, ini, fim, tipo) :
        emp \in {<<>>, <<"Gestao">>}, ini \in {<<>>, <<Jan>>},
        fim \in {<<>>, <<Jan>>}, tipo \in {<<>>, <<Entrada>>}}

\* manager.read_lancamentos(filtros)
ReadLancamentos ==
    /\ NaPaginaLancamentos
    /\ \E f \in FiltrosLeitura :
           out' = [op |-> "read", filtros |-> f, df |-> read_lancamentos(store, f)]
    /\ UNCHANGED <<store, nextId>>

NextLeitura ==
    \/ PageLancamentos
    \/ ReadLancamentos

SpecLeitura == InitLeitura /\ [][NextLeitura]_vars

-----------------------------------------------------------------------------
(* The seed of an empty table, and the runs of main *)

\* the months of the seed: from January of last year, while the first day
\* of the month is not after today
SeedMonths == 12 * (Now.y - 1) + 0 .. 12 * Now.y + (Now.m - 1)

\* the turns of the while loop
SeedTurns == Cardinality(SeedMonths)

\* manager.read_lancamentos().empty: no row of the table passes the WHERE
\* clause (the ORDER BY plays no part in it)
df_existing_empty(rows) == \A i \in 1..Len(rows) : ~Where(rows[i], SemFiltros)

\* the first row of read_lancamentos(): the one ORDER BY puts before all
FirstListed(rows) ==
    LET S == Range(rows)
    IN CHOOSE a \in S : \A b \in S : b = a \/ OrderBefore(a, b)

\* current_date of the k-th turn of the while loop
SeedDate(k) ==
    LET mes == 12 * (Now.y - 1) + (k - 1)
    IN Dt(mes \div 12, (mes % 12) + 1, 1)

\* random.randint(2, 4) inflows and random.randint(3, 6) outflows a month
\* (one draw stands for those of all the months)
SeedCounts == (2..4) \X (3..6)

\* random.uniform(800, 3000) and random.uniform(300, 1500), one value each
SeedEntrada == Numero(1000)
SeedSaida == Numero(500)

\* the dados of the j-th insert_lancamento of the loops, with c[1] inflows
\* followed by c[2] outflows in every month
SeedDados(j, c) ==
    LET k == ((j - 1) \div (c[1] + c[2])) + 1
        pos == (j - 1) % (c[1] + c[2])
    IN Entry(SeedDate(k),
             IF pos < c[1] THEN <<Entrada, SeedEntrada>> ELSE <<Saida, SeedSaida>>)

\* the rows the loops insert, the first with the id next
SeedRows(next, c) ==
    [j \in 1..(SeedTurns * (c[1] + c[2])) |->
        Row(next + j - 1, SeedDados(j, c))]

\* seed_database_if_empty without the test of df_existing.empty
seed_database_always(rows, next, c) ==
    [rows |-> rows \o SeedRows(next, c),
     next |-> next + SeedTurns * (c[1] + c[2])]

\* seed_database_if_empty(): the table and the id counter it leaves
seed_database_if_empty(rows, next, c) ==
    IF ~df_existing_empty(rows) THEN [rows |-> rows, next |-> next]
    ELSE [rows |-> rows \o SeedRows(next, c),
          next |-> next + SeedTurns * (c[1] + c[2])]

\* one run of main: the seed, then the sidebar with its count of the table
\* (an empty table is seeded only while no id beyond MaxRows + 1 was given,
\* which bounds the ids)
Main ==
    /\ store = <<>> => nextId <= MaxRows + 1
    /\ \E c \in SeedCounts :
           \E seeded \in {seed_database_if_empty(store, nextId, c)} :
               /\ store' = seeded.rows
               /\ nextId' = seeded.next
               /\ out' = [op |-> "main", total_registros |-> Len(seeded.rows)]

\* "Confirmar Exclusão" on the entry the select box shows first, which is
\* the first row of read_lancamentos
ExcluirPrimeiro ==
    /\ out.op \in {"main", "lancamentos"}
    /\ store # <<>>
    /\ \E id_ \in {FirstListed(store).id} :
           store' = SelectSeq(store, LAMBDA r : HasOtherId(r, id_))
    /\ out' = [op |-> "delete", ret |-> TRUE]
    /\ UNCHANGED nextId

NextMain ==
    \/ Main
    \/ ExcluirPrimeiro

SpecMain == InitArquivo /\ [][NextMain]_vars

-----------------------------------------------------------------------------
(* Properties of the engine *)

\* the entries a page has read, from the values recorded with its outcome
DashboardDf == read_lancamentos(store, FiltrosAno(out.ano, out.empresa))

\* C1: every KPI snapshot the pages compute has saldo = entradas - saidas
KpiBalance(k) == k.saldo = k.entradas - k.saidas

C1_SaldoIsEntradasMinusSaidas ==
    /\ out.op = "dashboard" => KpiBalance(out.kpis)
    /\ out.op = "comparativo" => KpiBalance(out.kpis1) /\ KpiBalance(out.kpis2)

C1_Witness ==
    /\ out.op = "dashboard"
    /\ out.kpis.entradas = 1500
    /\ out.kpis.saidas = 1000
    /\ out.kpis.saldo = 500

\* C2: the three trends calcular_trends returns are finite numbers
C2_TrendsAreFinite ==
    (out.op = "dashboard" /\ out.trends.ret = "ok") =>
        /\ IsFinite(out.trends.trend_entradas)
        /\ IsFinite(out.trends.trend_saidas)
        /\ IsFinite(out.trends.trend_saldo)

\* the inflow total of a bucket table: the sum of its column "entrada"
BucketTotal(monthly, c) ==
    IF c \in monthly.columns THEN SumSeq(Column(monthly, c)) ELSE 0

\* the amounts of the rows whose kind, trimmed and lower-cased, is c
NormTotal(df, c) ==
    LET hit(r) == lower(strip(r.tipo)) = c
    IN SumSeq(Col(SelectSeq(df, hit)))

\* C3: in the KPI totals, the trend buckets and the forecast buckets, the
\* inflow (outflow) total is that of all entries whose kind is "entrada"
\* ("saída") once trimmed and lower-cased
C3_KindNormalizedEverywhere ==
    /\ out.op = "dashboard" =>
          /\ out.kpis.entradas = NormTotal(DashboardDf, entrada)
          /\ out.kpis.saidas = NormTotal(DashboardDf, saida)
          /\ \A c \in {entrada, saida} :
                BucketTotal(TrendMonthly(DashboardDf, out.periodo), c)
                    = NormTotal(TrendWindow(DashboardDf, out.periodo), c)
    /\ out.op = "previsoes" =>
          \A c \in {entrada, saida} :
              BucketTotal(monthly_hist(store, out.empresa, out.meses_historico), c)
                  = NormTotal(SelectSeq(df_historico(store, out.empresa, out.meses_historico),
                                  HasDate), c)

\* C4: calcular_kpis, calcular_trends, the forecast and calc_variation
\* return a result for every collection of entries
C4_EngineNeverRaises ==
    /\ out.op = "dashboard" => out.trends.ret = "ok"
    /\ out.op = "previsoes" => out.ret \in {"ok", "warning"}
    /\ out.op = "comparativo" =>
          \A v \in {out.var_entradas, out.var_saidas, out.var_saldo, out.var_lanc} :
              IsFinite(v)

\* C5: the trend buckets partition the entries of the window: per kind, the
\* bucket totals add up to the KPI total of the entries of the window
C5_BucketsPartitionWindow ==
    out.op = "dashboard" =>
        LET window == TrendWindow(DashboardDf, out.periodo)
            monthly == TrendMonthly(DashboardDf, out.periodo)
            kpis == calcular_kpis(window)
        IN /\ BucketTotal(monthly, entrada) = kpis.entradas
           /\ BucketTotal(monthly, saida) = kpis.saidas

\* two buckets, both kinds, and a kind text that needs str.strip()
C5_Witness ==
    /\ out.op = "dashboard"
    /\ Len(TrendMonthly(DashboardDf, out.periodo).index) = 2
    /\ BucketTotal(TrendMonthly(DashboardDf, out.periodo), entrada) = 2000
    /\ \E i \in 1..Len(store) : store[i].tipo.pad

\* the four metrics the page compares: <<base A, value B, variation>>
Metrics ==
    {<<out.kpis1.entradas, out.kpis2.entradas, out.var_entradas>>,
     <<out.kpis1.saidas, out.kpis2.saidas, out.var_saidas>>,
     <<out.kpis1.saldo, out.kpis2.saldo, out.var_saldo>>,
     <<out.kpis1.total_lancamentos, out.kpis2.total_lancamentos, out.var_lanc>>}

\* C6: with a zero base the variation is 0 when the value is 0 too, and 100
\* otherwise, for each of the four metrics
C6_ZeroBaseRule ==
    out.op = "comparativo" =>
        \A x \in Metrics :
            x[1] = 0 => x[3] = (IF x[2] = 0 THEN Num(0) ELSE Num(100))

C6_Witness ==
    /\ out.op = "comparativo"
    /\ out.kpis1.entradas = 0 /\ out.kpis2.entradas > 0 /\ out.var_entradas = Num(100)
    /\ out.kpis1.saidas = 0 /\ out.kpis2.saidas = 0 /\ out.var_saidas = Num(0)
    /\ out.kpis1.total_lancamentos = 0 /\ out.var_lanc = Num(100)

\* C7: with a non-zero base A the variation is (B - A) / A * 100; a snapshot
\* compared with itself varies by 0, and 1000 against 1500 by +50
C7_VariationFormula ==
    out.op = "comparativo" =>
        /\ \A x \in Metrics :
              x[1] # 0 =>
                  /\ IsFinite(x[3])
                  /\ x[3].n * x[1] = (x[2] - x[1]) * 100 * x[3].d
                  /\ (x[2] = x[1] => x[3] = Num(0))
        /\ (out.kpis1.entradas = 1000 /\ out.kpis2.entradas = 1500)
              => out.var_entradas = Num(50)

C7_Witness ==
    /\ out.op = "comparativo"
    /\ out.kpis1.entradas = 1000
    /\ out.kpis2.entradas = 1500
    /\ out.var_entradas = Num(50)

\* the bucket table of the forecast on screen
OutMonthly == monthly_hist(store, out.empresa, out.meses_historico)

\* C8: every forecast point has entradas_proj >= 0 and saidas_proj >= 0
C8_ProjectionsNonNegative ==
    (out.op = "previsoes" /\ out.ret = "ok") =>
        \A i \in 1..Len(out.projecoes) :
            /\ ~FLess(out.projecoes[i].entradas_proj, Num(0))
            /\ ~FLess(out.projecoes[i].saidas_proj, Num(0))

\* a falling line: its value is negative at the last step, the point is 0
C8_Witness ==
    /\ out.op = "previsoes" /\ out.ret = "ok"
    /\ FLess(LineAt(FitOf(OutMonthly, entrada),
                    Len(OutMonthly.index) + out.meses_projecao - 1), Num(0))
    /\ out.projecoes[out.meses_projecao].entradas_proj = Num(0)

\* the entries of the history window whose date can be parsed
ParseableRows ==
    {r \in Range(store) :
        /\ Where(r, FiltrosHistorico(out.empresa, out.meses_historico))
        /\ IsDate(r.data)}

\* C9: without any entry of a parseable date in the history window the page
\* warns of insufficient data and builds no list of points
C9_NoBucketsNoProjection ==
    (out.op = "previsoes" /\ ParseableRows = {}) =>
        /\ out.ret = "warning"
        /\ "projecoes" \notin DOMAIN out

\* entries exist, none with a parseable date
C9_Witness ==
    /\ out.op = "previsoes"
    /\ store # <<>>
    /\ ParseableRows = {}
    /\ out.ret = "warning"

\* the months of the history window, from the entries themselves
HistoryMonths == {12 * r.data.y + (r.data.m - 1) : r \in ParseableRows}

\* C10: the forecast has meses_projecao points; point i is the fitted line
\* at index (number of buckets + i - 1), floored at 0, for the i-th month
\* after the last month of the history
C10_HorizonPoints ==
    (out.op = "previsoes" /\ out.ret = "ok") =>
        LET months == HistoryMonths
            n == Cardinality(months)
            fit_e == FitOf(OutMonthly, entrada)
            fit_s == FitOf(OutMonthly, saida)
        IN /\ Len(out.projecoes) = out.meses_projecao
           /\ \A i \in 1..out.meses_projecao :
                 LET pt == out.projecoes[i]
                 IN /\ \A m \in months : pt.mes >= m + i
                    /\ \E m \in months : pt.mes = m + i
                    /\ pt.entradas_proj = max0(LineAt(fit_e, n + i - 1))
                    /\ pt.saidas_proj = max0(LineAt(fit_s, n + i - 1))

\* two buckets and a rising line of inflows
C10_Witness ==
    /\ out.op = "previsoes" /\ out.ret = "ok"
    /\ Cardinality(HistoryMonths) = 2
    /\ out.meses_projecao = 12
    /\ FLess(Num(0), FitOf(OutMonthly, entrada).slope)
    /\ FLess(out.projecoes[1].entradas_proj, out.projecoes[12].entradas_proj)

\* the data points of kind c in the bucket table of the forecast: one value
\* for each bucket when the kind has a column, none otherwise
PointsOf(c) == IF c \in OutMonthly.columns THEN Column(OutMonthly, c) ELSE <<>>

\* the points the forecast shows for kind c
ProjOf(pt, c) == IF c = entrada THEN pt.entradas_proj ELSE pt.saidas_proj

\* the residuals y[k] - (intercept + slope * (k - 1)) of a line over a series
Residuals(fit, y) == [k \in 1..Len(y) |-> FSub(Num(y[k]), LineAt(fit, k - 1))]

\* a line is the least-squares fit of y over the indexes 0 .. Len(y) - 1
\* when its residuals sum to 0 and are orthogonal to the indexes
IsLeastSquares(fit, y) ==
    LET res == Residuals(fit, y)
    IN /\ FSum(res) = Num(0)
       /\ FSum([k \in 1..Len(y) |-> FMul(Num(k - 1), res[k])]) = Num(0)

\* C11: a kind with fewer than two data points gets a flat line, slope 0 and
\* intercept the mean of its values (0 when it has none), so every forecast
\* point of the kind is that mean; a kind with two or more data points gets
\* the least-squares line over the bucket indexes
C11_FlatLineBelowTwoPoints ==
    (out.op = "previsoes" /\ out.ret = "ok") =>
        LET monthly == OutMonthly
        IN \A c \in {entrada, saida} :
               LET y == IF c \in monthly.columns THEN Column(monthly, c) ELSE <<>>
                   fit == FitOf(monthly, c)
                   avg == IF y = <<>> THEN Num(0) ELSE Fin(SumSeq(y), Len(y))
               IN IF Len(y) < 2
                  THEN /\ fit.slope = Num(0)
                       /\ fit.intercept = avg
                       /\ \A i \in 1..Len(out.projecoes) :
                              ProjOf(out.projecoes[i], c) = max0(avg)
                  ELSE IsLeastSquares(fit, y)

\* one bucket: inflows of 1000 projected flat, no outflow at all projected 0
C11_Witness ==
    /\ out.op = "previsoes" /\ out.ret = "ok"
    /\ PointsOf(entrada) = <<1000>>
    /\ PointsOf(saida) = <<>>
    /\ \A i \in 1..out.meses_projecao :
           /\ out.projecoes[i].entradas_proj = Num(1000)
           /\ out.projecoes[i].saidas_proj = Num(0)

\* C12: at every forecast point saldo_proj is entradas_proj - saidas_proj,
\* the two values after the floor at zero
C12_SaldoProjIsDifference ==
    (out.op = "previsoes" /\ out.ret = "ok") =>
        \A i \in 1..Len(out.projecoes) :
            LET pt == out.projecoes[i]
            IN pt.saldo_proj = FSub(pt.entradas_proj, pt.saidas_proj)

\* inflows falling 1000 -> 0 (floored at 0) and outflows rising 0 -> 1000:
\* the balance of the first point is 0 - 2000, where a line fitted on the
\* balances 1000, -1000 would give -3000
C12_Witness ==
    /\ out.op = "previsoes" /\ out.ret = "ok"
    /\ PointsOf(entrada) = <<1000, 0>>
    /\ PointsOf(saida) = <<0, 1000>>
    /\ out.projecoes[1].entradas_proj = Num(0)
    /\ out.projecoes[1].saidas_proj = Num(2000)
    /\ out.projecoes[1].saldo_proj = Num(-2000)
    /\ LineAt(_fit(SaldoSeries(OutMonthly)), 2) = Num(-3000)

\* C13: a rising inflow series of two buckets <<a, b>> is continued along
\* its slope: the first forecast point is b + (b - a), which is at least b
\* and not negative; for <<1000, 1200>> it is 1400
C13_RisingSeriesExtrapolated ==
    (out.op = "previsoes" /\ out.ret = "ok") =>
        LET y == PointsOf(entrada)
            first == out.projecoes[1].entradas_proj
        IN (Len(y) = 2 /\ y[1] < y[2]) =>
               /\ first = Num(2 * y[2] - y[1])
               /\ ~FLess(first, Num(y[2]))
               /\ ~FLess(first, Num(0))
               /\ (y = <<1000, 1200>> => first = Num(1400))

C13_Witness ==
    /\ out.op = "previsoes" /\ out.ret = "ok"
    /\ PointsOf(entrada) = <<1000, 1200>>
    /\ out.projecoes[1].entradas_proj = Num(1400)

\* the entries of the trailing window of the trends on screen
OutWindow == TrendWindow(DashboardDf, out.periodo)

\* the calendar months in which the entries of a collection fall
MonthsOf(df) == {12 * df[i].data.y + (df[i].data.m - 1) : i \in 1..Len(df)}

\* the trends are reported, and the one named is 0
TrendReportedZero(name) == out.trends.ret = "ok" /\ out.trends[name] = Num(0)

\* the trend of a kind
TrendName(c) == IF c = entrada THEN "trend_entradas" ELSE "trend_saidas"

\* C14: with fewer than two monthly buckets in the trailing window the
\* three trends are reported as 0, and the trend of a kind without any entry
\* in the window is reported as 0
C14_FewBucketsZeroTrend ==
    out.op = "dashboard" =>
        /\ Cardinality(MonthsOf(OutWindow)) < 2 =>
               \A name \in {"trend_entradas", "trend_saidas", "trend_saldo"} :
                   TrendReportedZero(name)
        /\ \A c \in {entrada, saida} :
               (\A i \in 1..Len(OutWindow) : tipo_norm(OutWindow[i]) # c)
                   => TrendReportedZero(TrendName(c))

\* inflows minus outflows of the entries of df that fall in month m
SaldoOfMonth(df, m) ==
    SumSeq([i \in 1..Len(df) |->
               IF 12 * df[i].data.y + (df[i].data.m - 1) # m THEN 0
               ELSE IF IsEntrada(df[i]) THEN df[i].valor
               ELSE IF IsSaida(df[i]) THEN 0 - df[i].valor
               ELSE 0])

\* the balances of the months of df, in chronological order
SaldoByMonth(df) ==
    LET months == SortAsc(MonthsOf(df))
    IN [k \in 1..Len(months) |-> SaldoOfMonth(df, months[k])]

ComparativoDf1 == read_lancamentos(store, FiltrosAno(out.ano1, out.empresa1))
ComparativoDf2 == read_lancamentos(store, FiltrosAno(out.ano2, out.empresa2))

ZeroKpis == [entradas |-> 0, saidas |-> 0, saldo |-> 0, total_lancamentos |-> 0]

\* C16: the KPI snapshot of an empty collection of entries is all zero
C16_EmptyKpisAllZero ==
    /\ (out.op = "dashboard" /\ DashboardDf = <<>>) => out.kpis = ZeroKpis
    /\ (out.op = "comparativo" /\ ComparativoDf1 = <<>>) => out.kpis1 = ZeroKpis
    /\ (out.op = "comparativo" /\ ComparativoDf2 = <<>>) => out.kpis2 = ZeroKpis

\* the table has entries, none of them in the year of the dashboard
C16_Witness ==
    /\ out.op = "dashboard"
    /\ store # <<>>
    /\ DashboardDf = <<>>
    /\ out.kpis = ZeroKpis

\* the rows of the table the dashboard on screen selects
DashboardRows == {r \in Range(store) : Where(r, FiltrosAno(out.ano, out.empresa))}

\* C17: total_lancamentos is the number of entries read, whatever they hold:
\* an unparseable date, an unparseable amount or an unrecognised kind
C17_CountsEveryEntry ==
    out.op = "dashboard" =>
        out.kpis.total_lancamentos = Cardinality(DashboardRows)

\* one entry of a malformed date, one whose amount is no number and whose
\* kind is not recognised: both are counted
C17_Witness ==
    /\ out.op = "dashboard"
    /\ \E r \in DashboardRows : ~IsDate(r.data)
    /\ \E r \in DashboardRows : ~r.valor.num /\ ~IsEntrada(r) /\ ~IsSaida(r)
    /\ out.kpis.total_lancamentos = 2

\* the amount of a row in the sums: 0 when the text is no number
AmountInSums(r) == IF r.valor.num THEN r.valor.v ELSE 0

\* the sum of AmountInSums over the rows of the table at the indexes I
StoreTotal(I) ==
    SumSeq([i \in 1..Len(store) |->
               IF i \in I THEN AmountInSums(store[i]) ELSE 0])

MonthOfRow(r) == 12 * r.data.y + (r.data.m - 1)

\* the indexes of the rows the dashboard selects, and those of them that
\* fall in the trailing window of its trends
DashboardIdx == {i \in 1..Len(store) : store[i] \in DashboardRows}
WindowIdx ==
    {i \in DashboardIdx : IsDate(store[i].data) /\ InWindow(store[i], out.periodo)}

\* the indexes of the rows of the history window of the forecast
HistoryIdx == {i \in 1..Len(store) : store[i] \in ParseableRows}

\* C18: an entry whose amount is no number adds 0 to the KPI sums and to
\* the sums of its bucket, and stays in the collection: it is counted, and
\* its month is a bucket
C18_UnparseableAmountIsZero ==
    /\ out.op = "dashboard" =>
          LET monthly == TrendMonthly(DashboardDf, out.periodo)
          IN /\ out.kpis.total_lancamentos = Cardinality(DashboardIdx)
             /\ out.kpis.entradas = StoreTotal({i \in DashboardIdx : IsEntrada(store[i])})
             /\ out.kpis.saidas = StoreTotal({i \in DashboardIdx : IsSaida(store[i])})
             /\ Range(monthly.index) = {MonthOfRow(store[i]) : i \in WindowIdx}
             /\ \A m \in Range(monthly.index) : \A c \in monthly.columns :
                    monthly.at[m][c] =
                        StoreTotal({i \in WindowIdx :
                                       /\ MonthOfRow(store[i]) = m
                                       /\ tipo_norm(store[i]) = c})
    /\ out.op = "previsoes" =>
          /\ Range(OutMonthly.index) = {MonthOfRow(store[i]) : i \in HistoryIdx}
          /\ \A m \in Range(OutMonthly.index) : \A c \in OutMonthly.columns :
                 OutMonthly.at[m][c] =
                     StoreTotal({i \in HistoryIdx :
                                    /\ MonthOfRow(store[i]) = m
                                    /\ lower(store[i].tipo) = c})

\* an inflow whose amount is no number in one month and an inflow of 1500
\* in another: two entries, inflows of 1500, and a bucket of 0 for the
\* first month
C18_Witness ==
    /\ out.op = "dashboard"
    /\ \E i \in WindowIdx : ~store[i].valor.num /\ IsEntrada(store[i])
    /\ out.kpis.total_lancamentos = 2
    /\ out.kpis.entradas = 1500
    /\ Column(TrendMonthly(DashboardDf, out.periodo), entrada) = <<0, 1500>>

\* a collection without its entries of a malformed date
WellDated(df) ==
    LET valid(r) == IsDate(r.data)
    IN SelectSeq(df, valid)

\* C19: the entries whose date cannot be parsed are in no bucket of the
\* trends or of the forecast, and the results are those of the collection
\* without them
C19_MalformedDatesExcluded ==
    /\ out.op = "dashboard" =>
          LET df == DashboardDf
              clean == WellDated(df)
          IN /\ TrendMonthly(df, out.periodo) = TrendMonthly(clean, out.periodo)
             /\ out.trends = calcular_trends(clean, out.periodo)
    /\ out.op = "previsoes" =>
          LET clean == WellDated(store)
          IN /\ OutMonthly = monthly_hist(clean, out.empresa, out.meses_historico)
             /\ out = page_previsoes(clean, out.empresa,
                                     out.meses_historico, out.meses_projecao)

\* an inflow dated "2024-02-30" beside an inflow of January: one bucket,
\* and a forecast of the January amount alone
C19_Witness ==
    /\ out.op = "previsoes" /\ out.ret = "ok"
    /\ \E i \in 1..Len(store) : ~IsDate(store[i].data) /\ store[i].tipo = Entrada
    /\ Len(OutMonthly.index) = 1
    /\ PointsOf(entrada) = <<1000>>
    /\ out.projecoes[1].entradas_proj = Num(1000)

\* the months of a bucket table come one after the other in time
Chronological(index) == \A k \in 1..(Len(index) - 1) : index[k] < index[k + 1]

\* C20: the months of a bucket table are exactly the calendar months in
\* which an entry of a valid date falls, without a month for a gap, and in
\* chronological order whatever the order of the entries
C20_BucketsAreMonthsPresent ==
    /\ out.op = "dashboard" =>
          LET index == TrendMonthly(DashboardDf, out.periodo).index
              months == {MonthOfRow(store[i]) : i \in WindowIdx}
          IN /\ Range(index) = months
             /\ Len(index) = Cardinality(months)
             /\ Chronological(index)
    /\ out.op = "previsoes" =>
          LET index == OutMonthly.index
              months == HistoryMonths
          IN /\ Range(index) = months
             /\ Len(index) = Cardinality(months)
             /\ Chronological(index)

\* entries of March and of January, read in that order: two buckets,
\* January then March, and none for February
C20_Witness ==
    /\ out.op = "previsoes" /\ out.ret = "ok"
    /\ LET df == df_historico(store, out.empresa, out.meses_historico)
       IN Len(df) = 2 /\ df[1].data = Mar /\ df[2].data = Jan
    /\ OutMonthly.index = <<MonthOfRow([data |-> Jan]), MonthOfRow([data |-> Mar])>>
    /\ OutMonthly.index[2] = OutMonthly.index[1] + 2

\* the bucket table of January {entrada 1000, saida 400} and February
\* {entrada 1100, saida 500}
IsScenarioTable(monthly) ==
    LET jan == 12 * 2024
        feb == 12 * 2024 + 1
    IN /\ monthly.index = <<jan, feb>>
       /\ monthly.columns = {entrada, saida}
       /\ monthly.at[jan] = (entrada :> 1000 @@ saida :> 400)
       /\ monthly.at[feb] = (entrada :> 1100 @@ saida :> 500)

\* C21: for the four entries (2024-01-05, Entrada, 1000), (2024-01-20,
\* Saida, 400), (2024-02-10, Entrada, 1100), (2024-02-15, Saida, 500) the
\* KPI is 2100, 900, 1200 with 4 entries, and the monthly buckets are
\* January {1000, 400} and February {1100, 500}
C21_FourEntryScenario ==
    /\ (out.op = "dashboard" /\ out.ano = 2024) =>
          /\ out.kpis = [entradas |-> 2100, saidas |-> 900, saldo |-> 1200,
                         total_lancamentos |-> 4]
          /\ IsScenarioTable(TrendMonthly(DashboardDf, out.periodo))
    /\ out.op = "previsoes" => IsScenarioTable(OutMonthly)

C21_Witness ==
    /\ out.op = "dashboard" /\ out.ano = 2024
    /\ store[1].data = Dt(2024, 2, 15)
    /\ out.kpis.entradas = 2100 /\ out.kpis.saidas = 900
    /\ out.kpis.saldo = 1200 /\ out.kpis.total_lancamentos = 4
    /\ Column(TrendMonthly(DashboardDf, out.periodo), entrada) = <<1000, 1100>>
    /\ Column(TrendMonthly(DashboardDf, out.periodo), saida) = <<400, 500>>

\* the frame a computation was given is, at its end, the frame of the rows
\* read: same columns, same rows
Untouched(frames, df) == frames[1] = Frame(df)

\* the frames given to the computations of the page on screen are untouched
InputsUntouched ==
    /\ out.op = "dashboard" =>
          /\ Untouched(calcular_kpis_frames(DashboardDf), DashboardDf)
          /\ Untouched(calcular_trends_frames(DashboardDf, out.periodo), DashboardDf)
    /\ out.op = "comparativo" =>
          /\ Untouched(calcular_kpis_frames(ComparativoDf1), ComparativoDf1)
          /\ Untouched(calcular_kpis_frames(ComparativoDf2), ComparativoDf2)
    /\ out.op = "previsoes" =>
          LET df == df_historico(store, out.empresa, out.meses_historico)
          IN Untouched(page_previsoes_frames(df), df)

\* C22: a step that computes a page (KPI, trends, forecast, comparison)
\* leaves the stored entries as they were and does not modify the frame of
\* entries it was given
C22_ComputationsMutateNothing ==
    /\ []InputsUntouched
    /\ [][out'.op \in {"dashboard", "comparativo", "previsoes"} =>
              store' = store /\ nextId' = nextId]_vars

\* trends computed over a window of two entries: the columns "mes" and
\* "tipo_norm" are in the last frame of the call, not in the frame given
C22_Witness ==
    /\ out.op = "dashboard"
    /\ Len(TrendWindow(DashboardDf, out.periodo)) = 2
    /\ LET frames == calcular_trends_frames(DashboardDf, out.periodo)
       IN /\ Len(frames) = 4
          /\ "mes" \in frames[4].columns
          /\ frames[1] = Frame(DashboardDf)

\* C23: whatever inserts, updates and deletes came before, the KPI of the
\* dashboard is that of the entries now in the table (those its filters
\* select; all of them when the filters select every row)
C23_KpiOfCurrentStore ==
    out.op = "dashboard" =>
        LET idx == DashboardIdx
            ent == StoreTotal({i \in idx : IsEntrada(store[i])})
            sai == StoreTotal({i \in idx : IsSaida(store[i])})
        IN /\ out.kpis.entradas = ent
           /\ out.kpis.saidas = sai
           /\ out.kpis.saldo = out.kpis.entradas - out.kpis.saidas
           /\ out.kpis.total_lancamentos = Cardinality(idx)
           /\ DOMAIN out.kpis = {"entradas", "saidas", "saldo", "total_lancamentos"}
           /\ idx = 1..Len(store) => out.kpis.total_lancamentos = Len(store)

\* the first entry was deleted and the second one remains: the KPI is that
\* of the second entry alone
C23_Witness ==
    /\ out.op = "dashboard"
    /\ Len(store) = 1 /\ store[1].id = 2
    /\ out.kpis.total_lancamentos = 1
    /\ out.kpis.entradas = 1500

\* C24: every stored amount is non-negative in every state of the table
\* that the forms of the page "Lançamentos" can produce
C24_AmountsNonNegative ==
    \A i \in 1..Len(store) : store[i].valor.num => store[i].valor.v >= 0

\* the calendar date of data_corte, for each choice of the period
DataCorte == [p \in PeriodosTrend |-> DaysAgoText(p * 30)]

\* an entry of a valid date whose midnight is at or after the instant
\* data_corte: its date is later than the date of data_corte, or it is that
\* date and data_corte is itself a midnight
AtOrAfterCorte(r, p) ==
    /\ IsDate(r.data)
    /\ \/ ~TextLeq(r.data, DataCorte[p])
       \/ r.data = DataCorte[p] /\ Now.secs = 0

\* the month-by-month totals of one kind (1 inflow, 2 outflow, 3 balance)
\* over the entries at the indices I of the table
KindOfMonth(I, k, m) ==
    StoreTotal({i \in I : /\ MonthOfRow(store[i]) = m
                          /\ (k = 1 => IsEntrada(store[i]))
                          /\ (k = 2 => IsSaida(store[i]))
                          /\ (k = 3 => IsEntrada(store[i]))})
    - (IF k = 3
       THEN StoreTotal({i \in I : MonthOfRow(store[i]) = m /\ IsSaida(store[i])})
       ELSE 0)

TrendOfKind(I, k) ==
    LET months == SortAsc({MonthOfRow(store[i]) : i \in I})
        series == [j \in 1..Len(months) |-> KindOfMonth(I, k, months[j])]
        present == \/ k = 3
                   \/ k = 1 /\ \E i \in I : IsEntrada(store[i])
                   \/ k = 2 /\ \E i \in I : IsSaida(store[i])
    IN IF present /\ Len(months) >= 2 THEN Trend(series) ELSE Num(0)

\* C25: the three trends are those of the valid-date entries dated at or
\* after the current instant minus periodo * 30 days, month by month; an
\* older entry changes none of them
C25_WindowOfThirtyDayMonths ==
    out.op = "trends" =>
        LET recent == {i \in 1..Len(store) : AtOrAfterCorte(store[i], out.periodo)}
        IN out.trends = [ret |-> "ok",
                         trend_entradas |-> TrendOfKind(recent, 1),
                         trend_saidas |-> TrendOfKind(recent, 2),
                         trend_saldo |-> TrendOfKind(recent, 3)]

\* an inflow on the very day of data_corte (90 days back, at midnight) and a
\* larger one last week: the older one is out, one bucket is left, trend 0
C25_Witness ==
    /\ out.op = "trends" /\ out.periodo = 3
    /\ Len(store) = 2
    /\ store[1].data = Dt(2023, 12, 16) /\ store[2].data = Mar
    /\ IsEntrada(store[2])
    /\ out.trends.trend_entradas = Num(0)

\* every amount in the table is a number
AllAmountsNumeric == \A i \in 1..Len(store) : store[i].valor.num

\* the step of an insert_lancamento that returned ret
InsertReturned(ret) == out'.op = "insert" /\ out'.ret = ret

\* C26: an insert_lancamento that returns False leaves the table as it was,
\* one that returns True appends exactly one row, whose amount is a number;
\* so no row of the table, hence none a KPI counts, has a non-numeric amount
C26_InsertRejectsNonNumeric ==
    /\ []AllAmountsNumeric
    /\ [][/\ InsertReturned(FALSE) => store' = store /\ nextId' = nextId
          /\ InsertReturned(TRUE) =>
                 \E dados \in Dados :
                     /\ dados.valor.num
                     /\ store' = Append(store, Row(nextId, dados))]_vars

\* a rejected insert into a table that holds an entry
C26_Witness ==
    /\ out = [op |-> "insert", ret |-> FALSE]
    /\ Len(store) = 1

\* the sign of the variation shown for a metric follows the direction of
\* the change from the base value a to the value b
SignFollowsChange(a, b, var) ==
    a # 0 => /\ (var.n > 0 <=> b > a)
             /\ (var.n < 0 <=> b < a)

\* C27: on the comparison page, for each of the four metrics with a
\* non-zero base value, the variation is positive exactly when the second
\* value is larger and negative exactly when it is smaller
C27_VariationSignFollowsChange ==
    out.op = "comparativo" =>
        /\ SignFollowsChange(out.kpis1.entradas, out.kpis2.entradas, out.var_entradas)
        /\ SignFollowsChange(out.kpis1.saidas, out.kpis2.saidas, out.var_saidas)
        /\ SignFollowsChange(out.kpis1.saldo, out.kpis2.saldo, out.var_saldo)
        /\ SignFollowsChange(out.kpis1.total_lancamentos,
                             out.kpis2.total_lancamentos, out.var_lanc)

\* seed_database_if_empty applied twice to the table is the same as once
SeedTwiceIsOnce ==
    \A c1 \in SeedCounts, c2 \in SeedCounts :
        LET once == seed_database_if_empty(store, nextId, c1)
        IN seed_database_if_empty(once.rows, once.next, c2) = once

\* C28: a run of main on a table with entries leaves the table as it is, a
\* run on an empty table leaves it with the seed entries, so after a run of
\* main the table is never empty, also when its last entry had just been
\* deleted; and seeding twice in a row is seeding once
C28_SeedOnlyWhenEmpty ==
    /\ [](SeedTwiceIsOnce /\ (out.op = "main" => store # <<>>))
    /\ [][out'.op = "main" =>
              IF store # <<>> THEN store' = store /\ nextId' = nextId
              ELSE /\ Len(store') >= SeedTurns
                   /\ store'[1].id = nextId
                   /\ nextId' = nextId + Len(store')]_vars

\* the table after a run of main holds the seed with ids from 2 on: its one
\* entry, of id 1, was deleted, and the run that followed seeded it again
C28_Witness ==
    /\ out.op = "main"
    /\ Len(store) >= SeedTurns
    /\ store[1].id = 2
    /\ store[1].data = Dt(Now.y - 1, 1, 1)

\* a stored entry passes every filter that is given: its company and kind
\* are the ones asked for, its day is not before data_inicio and not after
\* data_fim
PassesFilters(r, f) ==
    /\ \A e \in Range(f.empresa) : r.empresa = e
    /\ \A t \in Range(f.tipo) : r.tipo = t
    /\ \A d \in Range(f.data_inicio) : Ordinal(r.data) >= Ordinal(d)
    /\ \A d \in Range(f.data_fim) : Ordinal(r.data) <= Ordinal(d)

\* C29: read_lancamentos returns each stored entry that passes all the
\* given filters exactly once (all the entries when none is given) and no
\* other row, ordered by date descending, then id descending
C29_ReadFiltersAndOrders ==
    out.op = "read" =>
        LET df == out.df
            hits == {i \in 1..Len(store) : PassesFilters(store[i], out.filtros)}
        IN /\ Len(df) = Cardinality(hits)
           /\ \A i \in hits : \E k \in 1..Len(df) :
                  /\ df[k].id = store[i].id /\ df[k].data = store[i].data
                  /\ df[k].empresa = store[i].empresa /\ df[k].tipo = store[i].tipo
                  /\ df[k].valor = store[i].valor.v
           /\ out.filtros = SemFiltros => Len(df) = Len(store)
           /\ \A k \in 1..Len(df), l \in 1..Len(df) :
                  k < l => \/ Ordinal(df[k].data) > Ordinal(df[l].data)
                           \/ /\ df[k].data = df[l].data
                              /\ df[k].id > df[l].id

\* all four filters given, two entries of the asked company and kind: one
\* dated on the day that is both bounds, which is returned, one later
C29_Witness ==
    /\ out.op = "read"
    /\ out.filtros = Filtros(<<"Gestao">>, <<Jan>>, <<Jan>>, <<Entrada>>)
    /\ Len(store) = 2
    /\ store[1].data = Mar /\ store[2].data = Jan
    /\ \A i \in 1..2 : store[i].empresa = "Gestao" /\ store[i].tipo = Entrada
    /\ Len(out.df) = 1 /\ out.df[1].id = 2

====
